---- MODULE Spec2Model ----
(***************************************************************************)
(* Model of the books example: the Book model (server/src/models/Book.js), *)
(* the books router (server/src/routes/api/v1/booksRouter.js) and the      *)
(* React client (client/src/components/App.js, BookForm.js).               *)
(*                                                                         *)
(* JavaScript values are tagged records, objects are functions from own    *)
(* property names to values, arrays are sequences.  A request handler is   *)
(* synchronous JavaScript (readFileSync / writeFileSync, no await), so one *)
(* handler invocation is one atomic step of the server's event loop;       *)
(* requests that are in flight at the same time are handled in any order.  *)
(***************************************************************************)
EXTENDS Integers, Sequences, FiniteSets, TLC

\* ---------------------------------------------------------------- bounds
MaxPosts == 2
MaxGets == 1
MaxPending == 2
MaxInitLen == 2
MaxInitId == 2
MaxSubmits == 1
MaxCalls == 3
MaxDocLen == 3

\* ------------------------------------------------------ JavaScript values
Undefined == [t |-> "undefined"]
Num(i) == [t |-> "number", n |-> i]
Str(x) == [t |-> "string", s |-> x]
Arr(q) == [t |-> "array", a |-> q]

\* Variant: only undefined counts as falsy.
Truthy_OnlyUndefined(v) == v.t # "undefined"

\* ToBoolean on the values above: undefined, "" and 0 are falsy.
Truthy(v) ==
  CASE v.t = "undefined" -> FALSE
    [] v.t = "string" -> v.s # ""
    [] v.t = "number" -> v.n # 0
    [] OTHER -> TRUE

\* obj[key]: a property that is not there reads as undefined.
Get(o, k) == IF k \in DOMAIN o THEN o[k] ELSE Undefined

\* obj[key] = value
SetProp(o, k, v) == [x \in (DOMAIN o) \cup {k} |-> IF x = k THEN v ELSE o[x]]

\* delete obj[key]
DeleteProp(o, k) == [x \in (DOMAIN o) \ {k} |-> o[x]]

\* JSON.stringify followed by JSON.parse of an object: properties whose
\* value is undefined are dropped, the others are kept.
JSONObject(o) == [x \in {y \in DOMAIN o : o[y] # Undefined} |-> o[x]]

EmptyObject == <<>>

\* ------------------------------------------------------------- Book model
requiredFields == <<"title">>

BlankMessage == "can't be blank"

\* constructor({ id, title })
NewBook(arg) == [id |-> Get(arg, "id"), title |-> Get(arg, "title")]

\* Book.findAll(): one Book per element of the document's books array.
findAll(doc) == [i \in 1..Len(doc) |-> NewBook(doc[i])]

\* The loop body of isValid for the fields requiredFields[i..]: errors[f] is
\* reset to [] and gets one message when this[f] is falsy.
RECURSIVE CheckFields(_, _, _)
CheckFields(this, errs, i) ==
  IF i > Len(requiredFields) THEN errs
  ELSE LET f == requiredFields[i]
           msgs == IF ~Truthy(Get(this, f)) THEN <<BlankMessage>> ELSE <<>>
       IN CheckFields(this, SetProp(errs, f, msgs), i + 1)

\* Variant: the errors of an earlier call are kept and pushed onto.
isValid_Accumulate(this) ==
  LET old == IF "errors" \in DOMAIN this THEN this.errors ELSE EmptyObject
      errs == [f \in {requiredFields[i] : i \in 1..Len(requiredFields)} |->
                 (IF f \in DOMAIN old THEN old[f] ELSE <<>>)
                   \o (IF ~Truthy(Get(this, f)) THEN <<BlankMessage>> ELSE <<>>)]
  IN [this |-> SetProp(this, "errors", errs),
      ret |-> \A i \in 1..Len(requiredFields) : Truthy(Get(this, requiredFields[i]))]

\* isValid(): the instance afterwards and the returned boolean.
isValid(this) ==
  LET errs == CheckFields(this, EmptyObject, 1)
  IN [this |-> SetProp(this, "errors", errs),
      ret |-> \A i \in 1..Len(requiredFields) : errs[requiredFields[i]] = <<>>]

\* _.maxBy(books, book => book.id): the first element with the largest id,
\* elements without a numeric id are skipped; undefined when there is none.
RECURSIVE maxBy(_, _, _)
maxBy(books, i, cur) ==
  IF i > Len(books) THEN cur
  ELSE LET b == books[i]
           better == /\ b.id.t = "number"
                     /\ (cur = Undefined \/ b.id.n > cur.id.n)
       IN maxBy(books, i + 1, IF better THEN b ELSE cur)

\* Variant: the id after the last record's instead of the largest.
getNextBookId_LastId(doc) ==
  LET all == findAll(doc)
  IN IF Len(all) = 0
       THEN [threw |-> TRUE, val |-> Undefined]
       ELSE [threw |-> FALSE, val |-> Num(all[Len(all)].id.n + 1)]

\* Variant: the largest id itself, without the increment.
getNextBookId_NoIncrement(doc) ==
  LET maxBook == maxBy(findAll(doc), 1, Undefined)
  IN IF maxBook = Undefined
       THEN [threw |-> TRUE, val |-> Undefined]
       ELSE [threw |-> FALSE, val |-> Num(maxBook.id.n)]

\* Book.getNextBookId(): maxBook.id + 1; reading .id of undefined throws.
getNextBookId(doc) ==
  LET maxBook == maxBy(findAll(doc), 1, Undefined)
  IN IF maxBook = Undefined
       THEN [threw |-> TRUE, val |-> Undefined]
       ELSE [threw |-> FALSE, val |-> Num(maxBook.id.n + 1)]

\* Variant: the new record is put in front of the collection (unshift).
save_Prepend(this, doc) ==
  LET v == isValid(this)
  IN IF v.ret
       THEN LET cleared == DeleteProp(v.this, "errors")
                next == getNextBookId(doc)
            IN IF next.threw
                 THEN [this |-> cleared, doc |-> doc, ret |-> "throw"]
                 ELSE LET saved == SetProp(cleared, "id", next.val)
                          all == <<saved>> \o findAll(doc)
                      IN [this |-> saved,
                          doc |-> [i \in 1..Len(all) |-> JSONObject(all[i])],
                          ret |-> "true"]
       ELSE [this |-> v.this, doc |-> doc, ret |-> "false"]

\* Variant: the document is written from the records the server started
\* with plus the new one, dropping what was created since.
save_Overwrite(this, doc) ==
  LET v == isValid(this)
  IN IF v.ret
       THEN LET cleared == DeleteProp(v.this, "errors")
                next == getNextBookId(doc)
            IN IF next.threw
                 THEN [this |-> cleared, doc |-> doc, ret |-> "throw"]
                 ELSE LET saved == SetProp(cleared, "id", next.val)
                          stale == SubSeq(findAll(doc), 1, 1)
                          all == Append(stale, saved)
                      IN [this |-> saved,
                          doc |-> [i \in 1..Len(all) |-> JSONObject(all[i])],
                          ret |-> "true"]
       ELSE [this |-> v.this, doc |-> doc, ret |-> "false"]

\* Variant: the record is appended and written before its id is computed.
save_WriteBeforeId(this, doc) ==
  LET v == isValid(this)
  IN IF v.ret
       THEN LET cleared == DeleteProp(v.this, "errors")
                early == Append(findAll(doc), cleared)
                next == getNextBookId(doc)
            IN IF next.threw
                 THEN [this |-> cleared,
                       doc |-> [i \in 1..Len(early) |-> JSONObject(early[i])],
                       ret |-> "throw"]
                 ELSE LET saved == SetProp(cleared, "id", next.val)
                          all == Append(findAll(doc), saved)
                      IN [this |-> saved,
                          doc |-> [i \in 1..Len(all) |-> JSONObject(all[i])],
                          ret |-> "true"]
       ELSE [this |-> v.this, doc |-> doc, ret |-> "false"]

\* save(): the instance afterwards, the document afterwards and the outcome
\* ("true", "false", or "throw" when getNextBookId throws after the errors
\* field was deleted and before anything was written).
save(this, doc) ==
  LET v == isValid(this)
  IN IF v.ret
       THEN LET cleared == DeleteProp(v.this, "errors")
                next == getNextBookId(doc)
            IN IF next.threw
                 THEN [this |-> cleared, doc |-> doc, ret |-> "throw"]
                 ELSE LET saved == SetProp(cleared, "id", next.val)
                          books == Append(findAll(doc), saved)
                      IN [this |-> saved,
                          doc |-> [i \in 1..Len(books) |-> JSONObject(books[i])],
                          ret |-> "true"]
       ELSE [this |-> v.this, doc |-> doc, ret |-> "false"]

\* ------------------------------------------------------------ the router
\* booksRouter.get: 200 and the collection.
GetResponse(doc) ==
  [status |-> 200,
   body |-> [bookz |-> Arr([i \in 1..Len(findAll(doc)) |-> JSONObject(findAll(doc)[i])])]]

\* booksRouter.post: the instance built (Undefined when the constructor
\* throws on a body without a book object), the document afterwards and the
\* response; an exception in the handler is answered 500 by the framework.
PostResult(reqBody, doc) ==
  LET arg == Get(reqBody, "book")
  IN IF arg = Undefined
       THEN [book |-> Undefined, doc |-> doc, ret |-> "throw",
             resp |-> [status |-> 500, body |-> EmptyObject]]
       ELSE LET r == save(NewBook(arg), doc)
            IN [book |-> r.this, doc |-> r.doc, ret |-> r.ret,
                resp |-> CASE r.ret = "true" ->
                                [status |-> 201, body |-> [book |-> JSONObject(r.this)]]
                           [] r.ret = "false" ->
                                [status |-> 422, body |-> [errors |-> r.this.errors]]
                           [] OTHER ->
                                [status |-> 500, body |-> EmptyObject]]

\* ----------------------------------------------------------------- inputs
Titles == {Str("Emma")}

\* books.json documents the server can start from: records with a title and
\* pairwise distinct ids, in any order.
InitDocs ==
  {d \in UNION {[1..n -> [id : {Num(i) : i \in 1..MaxInitId}, title : Titles]]
                  : n \in 0..MaxInitLen} :
     \A i, j \in 1..Len(d) : i # j => d[i].id # d[j].id}

\* Bodies of POST requests.
PostBodies ==
  { EmptyObject,
    [book |-> EmptyObject],
    [book |-> [title |-> Str("")]],
    [book |-> [title |-> Str("Dune")]],
    [book |-> [id |-> Num(1), title |-> Str("Emma")]] }

FailureStatuses == {404, 500}

FormInputs == {"", "Dune"}

\* ------------------------------------------------------------------ state
NoCall == [op |-> "none", ret |-> "none"]

VARIABLES
  file,        \* books.json: the books array of the document
  requests,    \* requests received by the server, in order of arrival
  handled,     \* indices of the requests whose handler has run
  responses,   \* responses sent, in the order the handlers completed
  book,        \* the Book instance last constructed
  call,        \* the last method called on book and how it returned
  calls,       \* number of isValid() runs on book since it was constructed
  pc,          \* App: "unmounted", "fetching", "idle" or "crashed"
  fetchRid,    \* App: index of the request sent by fetchData, 0 if none
  fetchCount,  \* App: number of times fetchData was invoked
  books,       \* App: useState books
  errors,      \* App: useState errors
  errorLog,    \* App: number of console.error calls in fetchData
  title,       \* BookForm: useState title
  submits      \* App: number of addBook calls

vars == <<file, requests, handled, responses, book, call, calls, pc, fetchRid, fetchCount,
          books, errors, errorLog, title, submits>>

serverVars == <<file, requests, handled, responses, book, call, calls>>
clientVars == <<pc, fetchRid, fetchCount, books, errors, errorLog, title, submits>>

Init ==
  /\ file \in InitDocs
  /\ requests = <<>>
  /\ handled = {}
  /\ responses = <<>>
  /\ book = Undefined
  /\ call = NoCall
  /\ calls = 0
  /\ pc = "unmounted"
  /\ fetchRid = 0
  /\ fetchCount = 0
  /\ books = Arr(<<>>)
  /\ errors = EmptyObject
  /\ errorLog = 0
  /\ title = ""
  /\ submits = 0

NumPosts == Cardinality({i \in 1..Len(requests) : requests[i].method = "POST"})
NumPending == Len(requests) - Cardinality(handled)
NumGets == Cardinality({i \in 1..Len(requests) : requests[i].method = "GET"})

\* Some client sends POST /api/v1/books.
SendPost(b) ==
  /\ NumPosts < MaxPosts
  /\ NumPending < MaxPending
  /\ requests' = Append(requests, [method |-> "POST", body |-> b])
  /\ UNCHANGED <<file, handled, responses, book, call, calls>>
  /\ UNCHANGED clientVars

\* Some client sends GET /api/v1/books.
SendGet ==
  /\ NumGets < MaxGets
  /\ NumPending < MaxPending
  /\ requests' = Append(requests, [method |-> "GET", body |-> EmptyObject])
  /\ UNCHANGED <<file, handled, responses, book, call, calls>>
  /\ UNCHANGED clientVars

\* The server runs the handler of a pending create request.
HandlePost(rid) ==
  /\ rid \in (1..Len(requests)) \ handled
  /\ requests[rid].method = "POST"
  /\ LET r == PostResult(requests[rid].body, file)
     IN /\ file' = r.doc
        /\ book' = r.book
        /\ call' = [op |-> IF r.book = Undefined THEN "new" ELSE "save", ret |-> r.ret]
        /\ calls' = IF r.book = Undefined THEN 0 ELSE 1
        /\ responses' = Append(responses,
                               [rid |-> rid, status |-> r.resp.status, body |-> r.resp.body])
  /\ handled' = handled \cup {rid}
  /\ UNCHANGED requests
  /\ UNCHANGED clientVars

\* The server runs the handler of a pending list request.
HandleGet(rid) ==
  /\ rid \in (1..Len(requests)) \ handled
  /\ requests[rid].method = "GET"
  /\ LET r == GetResponse(file)
     IN responses' = Append(responses,
                            [rid |-> rid, status |-> r.status, body |-> r.body])
  /\ handled' = handled \cup {rid}
  /\ UNCHANGED <<file, requests, book, call, calls>>
  /\ UNCHANGED clientVars

\* App mounts: the effect with the empty dependency list runs fetchData,
\* which sends GET /api/v1/books and awaits the response.
Mount ==
  /\ pc = "unmounted"
  /\ NumPending < MaxPending
  /\ pc' = "fetching"
  /\ fetchCount' = fetchCount + 1
  /\ requests' = Append(requests, [method |-> "GET", body |-> EmptyObject])
  /\ fetchRid' = Len(requests) + 1
  /\ UNCHANGED <<file, handled, responses, book, call, calls>>
  /\ UNCHANGED <<books, errors, errorLog, title, submits>>

\* Rendering App maps over books; a value that is not an array throws.
AfterRender(b) == IF b.t = "array" THEN "idle" ELSE "crashed"

\* fetchData continues with the server's response: response.ok, so
\* setBooks(bookData.books).
FetchOk ==
  /\ pc = "fetching"
  /\ \E k \in 1..Len(responses) :
       /\ responses[k].rid = fetchRid
       /\ responses[k].status \in 200..299
       /\ books' = Get(responses[k].body, "books")
  /\ pc' = AfterRender(books')
  /\ UNCHANGED serverVars
  /\ UNCHANGED <<fetchRid, fetchCount, errors, errorLog, title, submits>>

\* fetchData gets a response with a non-success status: it throws and the
\* catch block logs.
FetchNotOk(status) ==
  /\ pc = "fetching"
  /\ status \notin 200..299
  /\ errorLog' = errorLog + 1
  /\ pc' = "idle"
  /\ UNCHANGED serverVars
  /\ UNCHANGED <<fetchRid, fetchCount, books, errors, title, submits>>

\* fetch rejects (network failure): the catch block logs.
FetchReject ==
  /\ pc = "fetching"
  /\ errorLog' = errorLog + 1
  /\ pc' = "idle"
  /\ UNCHANGED serverVars
  /\ UNCHANGED <<fetchRid, fetchCount, books, errors, title, submits>>

\* BookForm.handleChange
HandleChange(v) ==
  /\ pc \in {"fetching", "idle"}
  /\ title' = v
  /\ UNCHANGED serverVars
  /\ UNCHANGED <<pc, fetchRid, fetchCount, books, errors, errorLog, submits>>

\* BookForm.handleSubmit: props.addBook(formPayload), which only logs, then
\* setTitle("").
HandleSubmit ==
  /\ pc \in {"fetching", "idle"}
  /\ submits < MaxSubmits
  /\ submits' = submits + 1
  /\ title' = ""
  /\ UNCHANGED serverVars
  /\ UNCHANGED <<pc, fetchRid, fetchCount, books, errors, errorLog>>

\* The server and the clients of its API.
NextServer ==
  \/ \E b \in PostBodies : SendPost(b)
  \/ SendGet
  \/ \E rid \in 1..Len(requests) : HandlePost(rid)
  \/ \E rid \in 1..Len(requests) : HandleGet(rid)

SpecServer == Init /\ [][NextServer]_vars

\* Fairness of the event loop: a handler that is ready to run is run.  No
\* client is obliged to send a request.
FairSpecServer ==
  /\ SpecServer
  /\ WF_vars(\E rid \in 1..Len(requests) : HandlePost(rid))
  /\ WF_vars(\E rid \in 1..Len(requests) : HandleGet(rid))

\* The server together with the React client.
Next ==
  \/ \E b \in PostBodies : SendPost(b)
  \/ \E rid \in 1..Len(requests) : HandlePost(rid)
  \/ \E rid \in 1..Len(requests) : HandleGet(rid)
  \/ Mount
  \/ FetchOk
  \/ \E s \in FailureStatuses : FetchNotOk(s)
  \/ FetchReject
  \/ \E v \in FormInputs : HandleChange(v)
  \/ HandleSubmit

Spec == Init /\ [][Next]_vars

\* ------------------------------------------- the Book model used directly
\* Arguments of new Book(...).
BookArgs ==
  { EmptyObject,
    [title |-> Str("")],
    [title |-> Str("Dune")],
    [id |-> Num(1), title |-> Str("Emma")] }

InitBook ==
  /\ file \in InitDocs
  /\ requests = <<>>
  /\ handled = {}
  /\ responses = <<>>
  /\ book \in {NewBook(arg) : arg \in BookArgs}
  /\ call = [op |-> "new", ret |-> "none"]
  /\ calls = 0
  /\ pc = "unmounted"
  /\ fetchRid = 0
  /\ fetchCount = 0
  /\ books = Arr(<<>>)
  /\ errors = EmptyObject
  /\ errorLog = 0
  /\ title = ""
  /\ submits = 0

\* new Book(arg)
Construct(arg) ==
  /\ book' = NewBook(arg)
  /\ call' = [op |-> "new", ret |-> "none"]
  /\ calls' = 0
  /\ UNCHANGED <<file, requests, handled, responses>>
  /\ UNCHANGED clientVars

\* book.isValid()
CallIsValid ==
  /\ calls < MaxCalls
  /\ LET v == isValid(book)
     IN /\ book' = v.this
        /\ call' = [op |-> "isValid", ret |-> IF v.ret THEN "true" ELSE "false"]
  /\ calls' = calls + 1
  /\ UNCHANGED <<file, requests, handled, responses>>
  /\ UNCHANGED clientVars

\* book.save()
CallSave ==
  /\ calls < MaxCalls
  /\ Len(file) < MaxDocLen
  /\ LET r == save(book, file)
     IN /\ book' = r.this
        /\ file' = r.doc
        /\ call' = [op |-> "save", ret |-> r.ret]
  /\ calls' = calls + 1
  /\ UNCHANGED <<requests, handled, responses>>
  /\ UNCHANGED clientVars

NextBook ==
  \/ \E arg \in BookArgs : Construct(arg)
  \/ CallIsValid
  \/ CallSave

SpecBook == InitBook /\ [][NextBook]_vars

\* ------------------------------------------------------------- properties
Last(q) == q[Len(q)]

\* The ids of the records of a document and the largest of a set of ids.
IdsOf(doc) == {doc[i].id.n : i \in 1..Len(doc)}
MaxOf(S) == CHOOSE m \in S : \A x \in S : x <= m

\* This step runs the handler of request rid.
Handles(rid) == rid \notin handled /\ handled' = handled \cup {rid}

IsPost(rid) == requests[rid].method = "POST"
IsGet(rid) == requests[rid].method = "GET"
HasBook(rid) == "book" \in DOMAIN requests[rid].body
TitleOf(rid) == Get(requests[rid].body.book, "title")

\* A title that is a non-empty string; a title that is "" or not there.
NonEmpty(v) == v.t = "string" /\ v.s # ""
Blank(v) == v = Undefined \/ v = Str("")

\* The response sent to request rid.
ResponseTo(rid) == responses[CHOOSE k \in 1..Len(responses) : responses[k].rid = rid]

\* C1: a create with a truthy title against a store with at least one
\* record answers 201 with the created record, whose id is the largest
\* persisted id plus one whatever id the payload carried, and save()
\* returned true.
C1_CreateAssignsNextId ==
  [][\A rid \in 1..Len(requests) :
       (Handles(rid) /\ IsPost(rid) /\ HasBook(rid) /\ NonEmpty(TitleOf(rid)) /\ Len(file) >= 1)
         => /\ call'.ret = "true"
            /\ Last(responses').status = 201
            /\ Last(responses').body =
                 [book |-> [id |-> Num(MaxOf(IdsOf(file)) + 1), title |-> TitleOf(rid)]]]_vars

\* A create whose payload carried an id was answered 201 with another id,
\* from a store whose largest id was not the last record's.
C1_Witness ==
  \E k \in 1..Len(responses) :
    /\ responses[k].status = 201
    /\ "id" \in DOMAIN requests[responses[k].rid].body.book
    /\ responses[k].body.book.id # requests[responses[k].rid].body.book.id
    /\ responses[k].body.book.id = Num(3)
    /\ file[1].id = Num(2)

\* C2: a create whose book payload has an empty or missing title leaves the
\* document as it was and answers 422 with errors.title = ["can't be blank"].
C2_BlankTitleRejected ==
  [][\A rid \in 1..Len(requests) :
       (Handles(rid) /\ IsPost(rid) /\ HasBook(rid) /\ Blank(TitleOf(rid)))
         => /\ file' = file
            /\ Last(responses').status = 422
            /\ Last(responses').body = [errors |-> [title |-> <<BlankMessage>>]]]_vars

\* Both an empty and a missing title were answered 422.
C2_Witness ==
  /\ \E k \in 1..Len(responses) :
       /\ responses[k].status = 422
       /\ requests[responses[k].rid].body = [book |-> [title |-> Str("")]]
  /\ \E k \in 1..Len(responses) :
       /\ responses[k].status = 422
       /\ requests[responses[k].rid].body = [book |-> EmptyObject]

\* Every persisted record has a truthy title and no two share an id.
StoreWellFormed ==
  /\ \A i \in 1..Len(file) : NonEmpty(Get(file[i], "title"))
  /\ \A i, j \in 1..Len(file) : i # j => Get(file[i], "id") # Get(file[j], "id")

\* C3: after any sequence of creates every persisted record has a truthy
\* title, ids are pairwise distinct, and a record added by a create has an
\* id greater than every id assigned before it.
C3_StoreInvariant ==
  /\ []StoreWellFormed
  /\ [][file' # file =>
          /\ Len(file') = Len(file) + 1
          /\ \A x \in IdsOf(file) : Last(file').id.n > x]_vars

\* A rejected create and then a successful one, on a store that had two
\* records with the larger id first.
C3_Witness ==
  /\ Len(responses) = 2
  /\ responses[1].status = 422
  /\ responses[2].status = 201
  /\ Len(file) = 3
  /\ file[1].id.n > file[2].id.n
  /\ file[3].id.n > file[1].id.n

\* C4: a create with a valid title against an empty store answers 201 with
\* the record carrying id 1, and the store then holds exactly that record.
C4_FirstRecordGetsIdOne ==
  [][\A rid \in 1..Len(requests) :
       (Handles(rid) /\ IsPost(rid) /\ HasBook(rid) /\ NonEmpty(TitleOf(rid)) /\ file = <<>>)
         => /\ Last(responses').status = 201
            /\ Last(responses').body = [book |-> [id |-> Num(1), title |-> TitleOf(rid)]]
            /\ file' = <<[id |-> Num(1), title |-> TitleOf(rid)]>>]_vars

\* C5: a list request answers 200 with the persisted collection under the
\* key "books", and after a successful mount-time fetch the client's list
\* is the sequence of records the server had persisted.
C5_ListUnderBooksKey ==
  /\ [][\A rid \in 1..Len(requests) :
          (Handles(rid) /\ IsGet(rid))
            => /\ Last(responses').status = 200
               /\ Get(Last(responses').body, "books") = Arr(file)]_vars
  /\ [][(pc = "fetching" /\ pc' # "fetching" /\ errorLog' = errorLog)
          => /\ books'.t = "array"
             /\ \E n \in 0..Len(file) : books'.a = SubSeq(file, 1, n)]_vars

\* The array a list response carries.
ListOf(body) == body[CHOOSE k \in DOMAIN body : TRUE].a

\* The records of the 201 responses among responses[from..], in order.
RECURSIVE CreatedFrom(_)
CreatedFrom(from) ==
  IF from > Len(responses) THEN <<>>
  ELSE IF responses[from].status = 201
         THEN <<responses[from].body.book>> \o CreatedFrom(from + 1)
         ELSE CreatedFrom(from + 1)

\* C6: creates are append-only and order-preserving: the document ends with
\* the created records in the order their creates completed, a create never
\* changes or reorders what was persisted, and a list response carries the
\* records persisted before it followed by those created until then.
C6_AppendOnly ==
  /\ [](/\ Len(file) >= Len(CreatedFrom(1))
        /\ SubSeq(file, Len(file) - Len(CreatedFrom(1)) + 1, Len(file)) = CreatedFrom(1)
        /\ \A k \in 1..Len(responses) :
             requests[responses[k].rid].method = "GET"
               => ListOf(responses[k].body) =
                    SubSeq(file, 1, Len(file) - Len(CreatedFrom(k + 1))))
  /\ [][Len(file') >= Len(file) /\ SubSeq(file', 1, Len(file)) = file]_vars

\* A list request handled after two successful creates returned both
\* records, in creation order, after the records persisted before.
C6_Witness ==
  /\ Len(responses) = 3
  /\ responses[1].status = 201
  /\ responses[2].status = 201
  /\ requests[responses[3].rid].method = "GET"
  /\ Len(ListOf(responses[3].body)) = 4
  /\ SubSeq(ListOf(responses[3].body), 3, 4) = <<responses[1].body.book, responses[2].body.book>>

\* Two creates were answered 201 and one of the created records is not
\* persisted, or both got the same id.
LostUpdate ==
  \E j, k \in 1..Len(responses) :
    /\ j # k
    /\ responses[j].status = 201
    /\ responses[k].status = 201
    /\ \/ responses[j].body.book.id = responses[k].body.book.id
       \/ \A i \in 1..Len(file) : file[i] # responses[j].body.book

\* Two creates were in flight together (the later one was handled first) and
\* both were answered 201.
CreatedTogether ==
  \E j, k \in 1..Len(responses) :
    /\ j < k
    /\ responses[j].rid > responses[k].rid
    /\ responses[j].status = 201
    /\ responses[k].status = 201

C8_FetchFrame ==
  /\ [](fetchCount <= 1)
  /\ [][(pc = "fetching" /\ pc' # "fetching" /\ errorLog' # errorLog)
          => books' = books /\ errors' = errors /\ errorLog' = errorLog + 1]_vars
  /\ [][(pc = "fetching" /\ pc' # "fetching" /\ errorLog' = errorLog)
          => /\ books' = Arr(ListOf(ResponseTo(fetchRid).body))
             /\ errors' = errors]_vars

\* C9: isValid() returns true exactly when the title is truthy and rebuilds
\* the errors: after any number of calls errors.title is [] or the single
\* message; a save() returning true leaves no errors field, one returning
\* false leaves the errors attached.
C9_ValidationErrors ==
  /\ call.op = "isValid" =>
       /\ (call.ret = "true") = NonEmpty(book.title)
       /\ "errors" \in DOMAIN book
       /\ book.errors = [title |-> IF NonEmpty(book.title) THEN <<>> ELSE <<BlankMessage>>]
  /\ (call.op = "save" /\ call.ret = "true") =>
       /\ "errors" \notin DOMAIN book
       /\ NonEmpty(book.title)
  /\ (call.op = "save" /\ call.ret = "false") =>
       /\ "errors" \in DOMAIN book
       /\ book.errors = [title |-> <<BlankMessage>>]
       /\ Blank(book.title)

\* isValid() has run three times in a row on a record without a title.
C9_Witness ==
  /\ call.op = "isValid"
  /\ calls = 3
  /\ call.ret = "false"
  /\ book.errors.title = <<BlankMessage>>

\* C10: the document changes only in a create that answers 201; a create
\* that answers anything else, and a list request, leave it as it was.
C10_WriteOnlyOnCreated ==
  /\ [][\A rid \in 1..Len(requests) :
          (Handles(rid) /\ IsPost(rid) /\ Last(responses').status # 201) => file' = file]_vars
  /\ [][\A rid \in 1..Len(requests) : (Handles(rid) /\ IsGet(rid)) => file' = file]_vars
  /\ [][file' # file =>
          \E rid \in 1..Len(requests) :
            Handles(rid) /\ IsPost(rid) /\ Last(responses').status = 201]_vars

\* A create with a valid title failed on an empty store, another failed for
\* want of a book object, both answered 500, and the store is still empty.
C10_Witness ==
  /\ file = <<>>
  /\ \E k \in 1..Len(responses) :
       /\ responses[k].status = 500
       /\ requests[responses[k].rid].body = [book |-> [title |-> Str("Dune")]]
  /\ \E k \in 1..Len(responses) :
       /\ responses[k].status = 500
       /\ requests[responses[k].rid].body = EmptyObject

TypeOK ==
  /\ Len(requests) <= MaxPosts + MaxGets + 1
  /\ handled \subseteq 1..Len(requests)
  /\ Len(responses) = Cardinality(handled)
  /\ pc \in {"unmounted", "fetching", "idle", "crashed"}
====
